---- MODULE Spec2Model ----
(***************************************************************************)
(* Structural model of models/fields.py: SDFNetwork, RenderingNetwork and  *)
(* NeRF.  A tensor is modelled by its batch size and its columns; a layer  *)
(* by its built input/output width and, for SDFNetwork, by how each weight *)
(* column was initialised.  A raised Python exception is a value with      *)
(* status "raised".                                                        *)
(***************************************************************************)
EXTENDS Integers, Sequences, FiniteSets, TLC

VARIABLES net, call

vars == <<net, call>>

(* ----------------------------- bounds --------------------------------- *)

MaxLayers == 3
MaxMultires == 1
MaxBatch == 2
MaxD == 3

(* ------------------------ parameter domains --------------------------- *)

DIns == {2, 3}
DOuts == {1, 3}
DHiddens == {2}
FeatureDims == {0, 2}
Scales == {<<2>>, <<1, 1, 2>>}
SkipSets == SUBSET (-1 .. MaxLayers)
PointRows == {<<2, 4, 6>>, <<1, -2, 3>>}
RenderDIns == {6, 9}
Modes == {"idr", "no_view_dir", "no_normal", "full"}
Widths == {2, 3}
NeRFSkipSets == SUBSET (0 .. MaxD)

(* --------------------------- helpers ---------------------------------- *)

SetMax(S) == CHOOSE x \in S : \A y \in S : y <= x

SetMin(S) == CHOOSE x \in S : \A y \in S : x <= y

\* Python max(skip_in, default=d)
PyMax(S, d) == IF S = {} THEN d ELSE SetMax(S)

\* Python min(skip_in, default=d)
PyMin(S, d) == IF S = {} THEN d ELSE SetMin(S)

\* width of the last dimension after torch broadcasting; -1 is a shape error
Broadcast(a, b) ==
    IF a = b THEN a
    ELSE IF a = 1 THEN b
    ELSE IF b = 1 THEN a
    ELSE -1

\* n copies of the column c
Rep(n, c) == [i \in 1 .. n |-> c]

NoNet == [kind |-> "none"]

NoRet == [kind |-> "none", shape |-> <<>>, cols |-> <<>>, arg |-> <<>>]

PyNone == [kind |-> "None", shape |-> <<>>, cols |-> <<>>, arg |-> <<>>]

NoCall ==
    [op |-> "none", inputs |-> <<>>, features |-> <<>>, given |-> FALSE,
     status |-> "none", exc |-> "", trace |-> <<>>, ret |-> NoRet]

Raised(net0, exc, msg) ==
    [kind |-> "raised", cls |-> net0, exc |-> exc, msg |-> msg]

(* ------------------------- the embedder ------------------------------- *)

\* get_embedder(multires, input_dims): the declared output width
get_embedder(multires, input_dims) == input_dims + 2 * multires * input_dims

RECURSIVE FreqCols(_, _)
FreqCols(multires, input_dims) ==
    IF multires = 0 THEN <<>>
    ELSE FreqCols(multires - 1, input_dims)
         \o Rep(input_dims, <<"sin", multires - 1>>)
         \o Rep(input_dims, <<"cos", multires - 1>>)

\* the columns the embedding function produces: the raw coordinates followed
\* by the frequency channels
EmbedCols(multires, input_dims) ==
    Rep(input_dims, <<"x", 0>>) \o FreqCols(multires, input_dims)

(* --------------------------- SDFNetwork ------------------------------- *)

\* lines 24-27: the two checks of the skip indices
SkipCheck(skip_in, n_layers) ==
    IF PyMax(skip_in, -1) >= n_layers \/ PyMin(skip_in, n_layers) < 0
    THEN "range"
    ELSE IF skip_in = {} \/ SetMax(skip_in) >= n_layers - 1
         THEN "interior"
         ELSE "ok"

\* lines 37-43
EmbeddedInputDim(multires, d_in) ==
    IF multires > 0 THEN get_embedder(multires, d_in) ELSE d_in

\* line 45 (1-based: Dims(..)[l + 1] is dims[l])
Dims(embedded_input_dim, feature_dim, d_hidden, n_layers, d_out) ==
    <<embedded_input_dim + feature_dim>> \o Rep(n_layers, d_hidden) \o <<d_out>>

\* variant of SDFInDim that forgets the widening at a skip layer
SDFInDimNoSkip(dims, l, skip_in, embedded_input_dim) == dims[l + 1]

\* lines 51-53
SDFInDim(dims, l, skip_in, embedded_input_dim) ==
    IF l \in skip_in THEN dims[l + 1] + embedded_input_dim ELSE dims[l + 1]

\* variant of SkipWeightCols whose zeroed block starts one column late
SkipWeightColsOneLess(in_dim, embedded_input_dim) ==
    [c \in 1 .. in_dim |->
        IF embedded_input_dim > 3 /\ c > in_dim - (embedded_input_dim - 3) + 1
        THEN "zero" ELSE "normal"]

\* lines 70-71: all columns drawn, then the trailing embedded_input_dim - 3 zeroed
SkipWeightCols(in_dim, embedded_input_dim) ==
    [c \in 1 .. in_dim |->
        IF embedded_input_dim > 3 /\ c > in_dim - (embedded_input_dim - 3)
        THEN "zero" ELSE "normal"]

\* lines 66-67: columns 3.. zeroed, columns 0..2 drawn
FirstWeightCols(in_dim) ==
    [c \in 1 .. in_dim |-> IF c > 3 THEN "zero" ELSE "normal"]

\* lines 55-77: one layer of the stack with its initial weights
SDFLayer(l, in_dim, out_dim, num_layers, skip_in, multires, embedded_input_dim, geometric_init, inside_outside, weight_norm) ==
    LET init ==
            IF ~geometric_init
            THEN [w |-> Rep(in_dim, "default"), b |-> "default"]
            ELSE IF l = num_layers - 2
            THEN IF ~inside_outside
                 THEN [w |-> Rep(in_dim, "normal_pos"), b |-> "minus_bias"]
                 ELSE [w |-> Rep(in_dim, "normal_neg"), b |-> "plus_bias"]
            ELSE IF multires > 0 /\ l = 0
            THEN [w |-> FirstWeightCols(in_dim), b |-> "zero"]
            ELSE IF multires > 0 /\ l \in skip_in
            THEN [w |-> SkipWeightCols(in_dim, embedded_input_dim), b |-> "zero"]
            ELSE [w |-> Rep(in_dim, "normal"), b |-> "zero"]
    IN  [in_dim |-> in_dim, out_dim |-> out_dim, weight |-> init.w,
         bias |-> init.b, weight_norm |-> weight_norm]

FeatureInputDim == 768

\* SDFNetwork.__init__
SDFNetwork(d_in, d_out, d_hidden, n_layers, skip_in, multires, scale, geometric_init, weight_norm, inside_outside, feature_dim) ==
    LET chk == SkipCheck(skip_in, n_layers)
        embedded_input_dim == EmbeddedInputDim(multires, d_in)
        dims == Dims(embedded_input_dim, feature_dim, d_hidden, n_layers, d_out)
        num_layers == Len(dims)
    IN  IF chk # "ok"
        THEN Raised("SDFNetwork", "ValueError", <<chk, skip_in, n_layers>>)
        ELSE [kind |-> "sdf",
              d_in |-> d_in, d_out |-> d_out, d_hidden |-> d_hidden,
              n_layers |-> n_layers, skip_in |-> skip_in,
              multires |-> multires, feature_dim |-> feature_dim,
              embedded_input_dim |-> embedded_input_dim,
              num_layers |-> num_layers, scale |-> scale,
              geometric_init |-> geometric_init,
              layers |->
                  [i \in 1 .. num_layers - 1 |->
                      SDFLayer(i - 1,
                               SDFInDim(dims, i - 1, skip_in, embedded_input_dim),
                               dims[i + 1], num_layers, skip_in, multires,
                               embedded_input_dim, geometric_init,
                               inside_outside, weight_norm)],
              linear_pe |-> <<embedded_input_dim, FeatureInputDim>>,
              linear_k |-> <<FeatureInputDim, FeatureInputDim>>,
              linear_fused |-> <<FeatureInputDim, feature_dim>>]

\* line 88: inputs * self.scale, element by element under broadcasting
ScaleInputs(inputs, scale) ==
    [r \in 1 .. Len(inputs) |->
        [c \in 1 .. Broadcast(Len(inputs[r]), Len(scale)) |->
            inputs[r][IF Len(inputs[r]) = 1 THEN 1 ELSE c]
            * scale[IF Len(scale) = 1 THEN 1 ELSE c]]]

\* variant of Zeros that fills the feature slot with ones
Ones(B, feature_dim) == [r \in 1 .. B |-> Rep(feature_dim, 1)]

\* line 94: torch.zeros(inputs.shape[0], self.feature_dim)
Zeros(B, feature_dim) == [r \in 1 .. B |-> Rep(feature_dim, 0)]

\* lines 97-102: the layer loop from layer l on; x holds the columns of the
\* current tensor, emb those of self.embed_fn_fine(inputs).  The value-level
\* steps (division by sqrt(2), Softplus) keep the columns.
RECURSIVE SDFLayers(_, _, _, _, _)
SDFLayers(self, l, x, emb, trace) ==
    IF l > self.num_layers - 2
    THEN [ok |-> TRUE, x |-> x, trace |-> trace]
    ELSE LET xin == IF l \in self.skip_in THEN x \o emb ELSE x
             layer == self.layers[l + 1]
         IN  IF Len(xin) # layer.in_dim
             THEN [ok |-> FALSE, x |-> xin, trace |-> Append(trace, xin)]
             ELSE SDFLayers(self, l + 1, Rep(layer.out_dim, <<"h", l>>), emb,
                            Append(trace, xin))

\* variant of SDFOutputCols that leaves the distance column unscaled
SDFOutputColsNoDivide(x, scale) == [c \in 1 .. Len(x) |-> <<c, 1>>]

\* line 103: torch.cat([x[:, :1] / self.scale, x[:, 1:]], dim=-1); an output
\* column <<j, s>> is column j of the last layer's output divided by s
SDFOutputCols(x, scale) ==
    LET first == IF Len(x) >= 1 THEN 1 ELSE 0
        head == [c \in 1 .. Broadcast(first, Len(scale)) |->
                    <<1, scale[IF Len(scale) = 1 THEN 1 ELSE c]>>]
        tail == [c \in 1 .. Len(x) - first |-> <<c + first, 1>>]
    IN  head \o tail

\* SDFNetwork.forward
SDFNetwork_forward(self, inputs, features, given) ==
    LET B == Len(inputs)
        w == Broadcast(Len(inputs[1]), Len(self.scale))
        base == [op |-> "forward", inputs |-> inputs, features |-> features,
                 given |-> given, status |-> "raised", exc |-> "RuntimeError",
                 trace |-> <<>>, ret |-> NoRet]
    IN  IF w = -1 THEN base
        ELSE LET scaled == ScaleInputs(inputs, self.scale)
                 emb == EmbedCols(self.multires, w)
                 feats == IF given THEN features ELSE Zeros(B, self.feature_dim)
                 x0 == emb \o Rep(Len(feats[1]), <<"f", 0>>)
                 run == SDFLayers(self, 0, x0, emb, <<>>)
                 cols == SDFOutputCols(run.x, self.scale)
             IN  IF ~run.ok THEN [base EXCEPT !.trace = run.trace]
                 ELSE [base EXCEPT
                          !.status = "returned", !.exc = "", !.trace = run.trace,
                          !.ret = [kind |-> "tensor", shape |-> <<B, Len(cols)>>,
                                   cols |-> cols,
                                   arg |-> [pts |-> scaled, feat |-> feats]]]

\* SDFNetwork.sdf: self.forward(x, features)[:, :1]
SDFNetwork_sdf(self, x, features, given) ==
    LET r == SDFNetwork_forward(self, x, features, given)
    IN  IF r.status # "returned" THEN [r EXCEPT !.op = "sdf"]
        ELSE LET n == IF r.ret.shape[2] >= 1 THEN 1 ELSE 0
             IN  [r EXCEPT !.op = "sdf",
                           !.ret.shape = <<r.ret.shape[1], n>>,
                           !.ret.cols = SubSeq(r.ret.cols, 1, n)]

(* ------------------------- RenderingNetwork --------------------------- *)

\* width of points, normals and view directions (line 144: input_ch - 3)
VecDim == 3

\* RenderingNetwork.__init__
RenderingNetwork(d_feature, mode, d_in, d_out, d_hidden, n_layers, weight_norm, multires_view, squeeze_out, image_feature_dim) ==
    LET dims0 == d_in + d_feature + image_feature_dim
        input_ch == get_embedder(multires_view, VecDim)
        first == IF multires_view > 0 THEN dims0 + (input_ch - 3) ELSE dims0
        dims == <<first>> \o Rep(n_layers, d_hidden) \o <<d_out>>
        num_layers == Len(dims)
    IN  [kind |-> "rendering", mode |-> mode, squeeze_out |-> squeeze_out,
         d_in |-> d_in, d_out |-> d_out, d_feature |-> d_feature,
         image_feature_dim |-> image_feature_dim,
         multires_view |-> multires_view,
         embedview_fn |-> (multires_view > 0),
         num_layers |-> num_layers,
         lin |-> [i \in 1 .. num_layers - 1 |->
                     [in_dim |-> dims[i], out_dim |-> dims[i + 1],
                      weight_norm |-> weight_norm]]]

\* a tensor of width w, or Python None
Tensor(w) == [none |-> FALSE, w |-> w]

NoneValue == [none |-> TRUE, w |-> 0]

\* variant of RenderingInput whose last branch is an else for idr
RenderingInputElseIdr(mode, points, normals, view_dirs, feature_vectors, features) ==
    IF mode = "no_view_dir"
    THEN Tensor(points + normals + feature_vectors + features)
    ELSE IF mode = "no_normal"
    THEN Tensor(points + view_dirs + feature_vectors + features)
    ELSE Tensor(points + view_dirs + normals + feature_vectors + features)

\* lines 164-171: the concatenation the mode selects (arguments are widths)
RenderingInput(mode, points, normals, view_dirs, feature_vectors, features) ==
    IF mode = "idr"
    THEN Tensor(points + view_dirs + normals + feature_vectors + features)
    ELSE IF mode = "no_view_dir"
    THEN Tensor(points + normals + feature_vectors + features)
    ELSE IF mode = "no_normal"
    THEN Tensor(points + view_dirs + feature_vectors + features)
    ELSE NoneValue

\* lines 175-181: the layer loop from layer l on
RECURSIVE RenderingLayers(_, _, _, _)
RenderingLayers(self, l, x, trace) ==
    IF l > self.num_layers - 2
    THEN [exc |-> "", x |-> x, trace |-> trace]
    ELSE IF x.none
    THEN [exc |-> "TypeError", x |-> x, trace |-> trace]
    ELSE IF x.w # self.lin[l + 1].in_dim
    THEN [exc |-> "RuntimeError", x |-> x, trace |-> Append(trace, x.w)]
    ELSE RenderingLayers(self, l + 1, Tensor(self.lin[l + 1].out_dim),
                         Append(trace, x.w))

\* RenderingNetwork.forward; in.points, in.normals, ... are the widths of the
\* arguments and in.B their batch size
RenderingNetwork_forward(self, in) ==
    LET view_dirs ==
            IF self.embedview_fn
            THEN get_embedder(self.multires_view, in.view_dirs)
            ELSE in.view_dirs
        rendering_input ==
            RenderingInput(self.mode, in.points, in.normals, view_dirs,
                           in.feature_vectors, in.features)
        run == RenderingLayers(self, 0, rendering_input, <<>>)
        base == [op |-> "rendering_forward", inputs |-> in, features |-> <<>>,
                 given |-> TRUE, status |-> "raised", exc |-> run.exc,
                 trace |-> run.trace, ret |-> NoRet]
    IN  IF run.exc # "" THEN base
        ELSE IF self.squeeze_out /\ run.x.none
        THEN [base EXCEPT !.exc = "TypeError"]
        ELSE [base EXCEPT
                 !.status = "returned", !.exc = "",
                 !.ret = IF run.x.none THEN PyNone
                         ELSE [kind |-> "tensor", shape |-> <<in.B, run.x.w>>,
                               cols |-> <<>>, arg |-> <<>>]]

(* ------------------------------ NeRF ---------------------------------- *)

\* NeRF.__init__
NeRF(D, W, d_in, d_in_view, multires, multires_view, output_ch, skips, use_viewdirs) ==
    LET input_ch == IF multires > 0 THEN get_embedder(multires, d_in) ELSE 3
        input_ch_view ==
            IF multires_view > 0 THEN get_embedder(multires_view, d_in_view)
            ELSE 3
        Lin(a, b) == [in_dim |-> a, out_dim |-> b]
    IN  [kind |-> "nerf", D |-> D, W |-> W, d_in |-> d_in,
         d_in_view |-> d_in_view, input_ch |-> input_ch,
         input_ch_view |-> input_ch_view,
         embed_fn |-> (multires > 0), embed_fn_view |-> (multires_view > 0),
         multires |-> multires, multires_view |-> multires_view,
         skips |-> skips, use_viewdirs |-> use_viewdirs,
         pts_linears |->
             <<Lin(input_ch, W)>>
             \o [j \in 1 .. D - 1 |->
                    IF (j - 1) \notin skips THEN Lin(W, W)
                    ELSE Lin(W + input_ch, W)],
         views_linears |-> <<Lin(input_ch_view + W, W \div 2)>>,
         heads |->
             IF use_viewdirs
             THEN [feature_linear |-> Lin(W, W), alpha_linear |-> Lin(W, 1),
                   rgb_linear |-> Lin(W \div 2, 3)]
             ELSE [output_linear |-> Lin(W, output_ch)]]

\* lines 243-248: the point layers from layer i on; h and input_pts are widths
RECURSIVE NeRFPoints(_, _, _, _, _)
NeRFPoints(self, i, h, input_pts, trace) ==
    IF i > Len(self.pts_linears) - 1
    THEN [ok |-> TRUE, h |-> h, trace |-> trace]
    ELSE IF h # self.pts_linears[i + 1].in_dim
    THEN [ok |-> FALSE, h |-> h, trace |-> Append(trace, h)]
    ELSE LET out == self.pts_linears[i + 1].out_dim
         IN  NeRFPoints(self, i + 1,
                        IF i \in self.skips THEN input_pts + out ELSE out,
                        input_pts, Append(trace, h))

\* variant of NeRFElse in which the assertion is absent
NeRFElseReturnsNone(base) == [base EXCEPT !.status = "returned", !.exc = "", !.ret = PyNone]

\* lines 261-262: else: assert False
NeRFElse(base) == [base EXCEPT !.status = "raised", !.exc = "AssertionError" ]

\* NeRF.forward; in.input_pts and in.input_views are the widths of the
\* arguments and in.B their batch size
NeRF_forward(self, in) ==
    LET input_pts ==
            IF self.embed_fn THEN get_embedder(self.multires, in.input_pts)
            ELSE in.input_pts
        input_views ==
            IF self.embed_fn_view
            THEN get_embedder(self.multires_view, in.input_views)
            ELSE in.input_views
        run == NeRFPoints(self, 0, input_pts, input_pts, <<>>)
        base == [op |-> "nerf_forward", inputs |-> in, features |-> <<>>,
                 given |-> TRUE, status |-> "raised", exc |-> "RuntimeError",
                 trace |-> run.trace, ret |-> NoRet]
    IN  IF ~run.ok THEN base
        ELSE IF self.use_viewdirs
        THEN IF run.h # self.heads.alpha_linear.in_dim
             THEN [base EXCEPT !.trace = Append(run.trace, run.h)]
             ELSE IF run.h # self.heads.feature_linear.in_dim
             THEN [base EXCEPT !.trace = run.trace \o <<run.h, run.h>>]
             ELSE LET hv == self.heads.feature_linear.out_dim + input_views
                      t3 == run.trace \o <<run.h, run.h, hv>>
                  IN  IF hv # self.views_linears[1].in_dim
                      THEN [base EXCEPT !.trace = t3]
                      ELSE LET h2 == self.views_linears[1].out_dim
                           IN  IF h2 # self.heads.rgb_linear.in_dim
                               THEN [base EXCEPT !.trace = Append(t3, h2)]
                               ELSE [base EXCEPT
                                        !.status = "returned", !.exc = "",
                                        !.trace = Append(t3, h2),
                                        !.ret = [kind |-> "tuple",
                                                 shape |-> <<<<in.B, self.heads.alpha_linear.out_dim>>,
                                                             <<in.B, self.heads.rgb_linear.out_dim>>>>,
                                                 cols |-> <<>>, arg |-> <<>>]]
        ELSE NeRFElse(base)

(* --------------------------- the program ------------------------------ *)

Init == net = NoNet /\ call = NoCall

NewSDFNetwork ==
    /\ net = NoNet
    /\ \E d_in \in DIns, d_out \in DOuts, d_hidden \in DHiddens,
          n_layers \in 1 .. MaxLayers, skip_in \in SkipSets,
          multires \in 0 .. MaxMultires, scale \in Scales,
          geometric_init \in BOOLEAN, feature_dim \in FeatureDims :
            net' = SDFNetwork(d_in, d_out, d_hidden, n_layers, skip_in,
                              multires, scale, geometric_init, TRUE, FALSE,
                              feature_dim)
    /\ call' = NoCall

\* the point batches and feature tensors a caller passes
Batches(d_in) ==
    {[i \in 1 .. B |-> SubSeq(r, 1, d_in)] : r \in PointRows, B \in 1 .. MaxBatch}

FeatureArgs(B, feature_dim) ==
    {[given |-> FALSE, features |-> <<>>],
     [given |-> TRUE, features |-> [r \in 1 .. B |-> Rep(feature_dim, 0)]],
     [given |-> TRUE, features |-> [r \in 1 .. B |-> Rep(feature_dim, 1)]]}

CallSDFForward ==
    /\ net.kind = "sdf"
    /\ \E inputs \in Batches(net.d_in) :
         \E f \in FeatureArgs(Len(inputs), net.feature_dim) :
            call' = SDFNetwork_forward(net, inputs, f.features, f.given)
    /\ UNCHANGED net

CallSDFsdf ==
    /\ net.kind = "sdf"
    /\ \E x \in Batches(net.d_in) :
         \E f \in FeatureArgs(Len(x), net.feature_dim) :
            call' = SDFNetwork_sdf(net, x, f.features, f.given)
    /\ UNCHANGED net

NewRenderingNetwork ==
    /\ net = NoNet
    /\ \E d_feature \in Widths, mode \in Modes, d_in \in RenderDIns,
          d_out \in DOuts, d_hidden \in DHiddens, n_layers \in 0 .. MaxLayers,
          multires_view \in 0 .. MaxMultires, squeeze_out \in BOOLEAN,
          image_feature_dim \in Widths :
            net' = RenderingNetwork(d_feature, mode, d_in, d_out, d_hidden,
                                    n_layers, TRUE, multires_view, squeeze_out,
                                    image_feature_dim)
    /\ call' = NoCall

CallRenderingForward ==
    /\ net.kind = "rendering"
    /\ \E B \in 1 .. MaxBatch :
         call' = RenderingNetwork_forward(net,
                    [B |-> B, points |-> VecDim, normals |-> VecDim,
                     view_dirs |-> VecDim, feature_vectors |-> net.d_feature,
                     features |-> net.image_feature_dim])
    /\ UNCHANGED net

NewNeRF ==
    /\ net = NoNet
    /\ \E D \in 1 .. MaxD, W \in Widths, multires \in 0 .. MaxMultires,
          multires_view \in 0 .. MaxMultires, skips \in NeRFSkipSets,
          use_viewdirs \in BOOLEAN :
            net' = NeRF(D, W, VecDim, VecDim, multires, multires_view, 4, skips,
                        use_viewdirs)
    /\ call' = NoCall

CallNeRFForward ==
    /\ net.kind = "nerf"
    /\ \E B \in 1 .. MaxBatch :
         call' = NeRF_forward(net, [B |-> B, input_pts |-> net.d_in,
                                    input_views |-> net.d_in_view])
    /\ UNCHANGED net

Next ==
    \/ NewSDFNetwork
    \/ CallSDFForward
    \/ CallSDFsdf
    \/ NewRenderingNetwork
    \/ CallRenderingForward
    \/ NewNeRF
    \/ CallNeRFForward

Spec == Init /\ [][Next]_vars

(* ---------------------------- properties ------------------------------ *)

RecognizedModes == {"idr", "no_view_dir", "no_normal"}

\* the skip sets the construction contract accepts
SkipSetAccepted(skip_in, n_layers) ==
    /\ \A i \in skip_in : 0 <= i /\ i <= n_layers - 1
    /\ \E i \in skip_in : i < n_layers - 1

\* C1: SDFNetwork construction fails exactly when some skip index is outside
\* [0, n_layers-1] or no skip index is strictly less than n_layers-1, and
\* succeeds otherwise.
C1_ConstructionFailsExactly ==
    /\ net.kind = "sdf" => SkipSetAccepted(net.skip_in, net.n_layers)
    /\ (net.kind = "raised" /\ net.cls = "SDFNetwork")
           => ~SkipSetAccepted(net.msg[2], net.msg[3])

\* the scale vector broadcasts against a batch of points of width d_in
ScaleFits(self) == Broadcast(self.d_in, Len(self.scale)) # -1

\* C2: forward of a constructed SDFNetwork on a batch [B, d_in], with or
\* without features, returns a tensor of shape [B, d_out].
C2_ForwardShape ==
    (net.kind = "sdf" /\ ScaleFits(net) /\ call.op = "forward")
        => /\ call.status = "returned"
           /\ call.ret.shape = <<Len(call.inputs), net.d_out>>

\* C3: a constructed SDFNetwork has n_layers+1 layers, and the width of the
\* tensor entering each layer in forward equals the input width the layer was
\* built with, so that no layer of the stack raises a shape error.
C3_LayerWidthsChain ==
    net.kind = "sdf" =>
        /\ Len(net.layers) = net.n_layers + 1
        /\ call.op \in {"forward", "sdf"} =>
              /\ \A l \in 1 .. Len(call.trace) :
                    Len(call.trace[l]) = net.layers[l].in_dim
              /\ ScaleFits(net) =>
                    /\ Len(call.trace) = net.n_layers + 1
                    /\ call.status = "returned"

C3_Witness ==
    /\ net.kind = "sdf"
    /\ 0 \in net.skip_in
    /\ Cardinality(net.skip_in) >= 2
    /\ net.multires > 0
    /\ call.op = "forward"
    /\ call.status = "returned"
    /\ Len(call.trace) = net.n_layers + 1

ScaleFactors == {1, 2}

\* the network with its Scale Vector multiplied by k
ScaledNet(self, k) ==
    [self EXCEPT !.scale = [i \in 1 .. Len(self.scale) |-> k * self.scale[i]]]

DividesAll(k, inputs) ==
    \A r \in 1 .. Len(inputs) : \A c \in 1 .. Len(inputs[r]) : inputs[r][c] % k = 0

\* the points multiplied by 1/k
DivideInputs(inputs, k) ==
    [r \in 1 .. Len(inputs) |->
        [c \in 1 .. Len(inputs[r]) |-> inputs[r][c] \div k]]

\* C4 as stated: sdf of the network with the Scale Vector multiplied by k, on
\* the points multiplied by 1/k, equals sdf of the original network on the
\* original points.
C4_ScaleRoundTripSame ==
    (net.kind = "sdf" /\ call.op = "sdf" /\ call.status = "returned") =>
        \A k \in ScaleFactors :
            DividesAll(k, call.inputs) =>
                SDFNetwork_sdf(ScaledNet(net, k), DivideInputs(call.inputs, k),
                               call.features, call.given).ret = call.ret

\* C4 amended: sdf of the network with the Scale Vector multiplied by k, on
\* the points multiplied by 1/k, is the original distance divided by k: the
\* layer stack sees the same tensor, and its first output column is divided
\* by k times the original scale.
C4_ScaleRoundTripDividedByK ==
    (net.kind = "sdf" /\ call.op = "sdf" /\ call.status = "returned") =>
        \A k \in ScaleFactors :
            DividesAll(k, call.inputs) =>
                LET r == SDFNetwork_sdf(ScaledNet(net, k),
                                        DivideInputs(call.inputs, k),
                                        call.features, call.given)
                IN  /\ r.status = "returned"
                    /\ r.ret.arg = call.ret.arg
                    /\ r.ret.shape = call.ret.shape
                    /\ \A c \in 1 .. Len(call.ret.cols) :
                          r.ret.cols[c] =
                              <<call.ret.cols[c][1], k * call.ret.cols[c][2]>>

C4_Witness ==
    /\ net.kind = "sdf"
    /\ call.op = "sdf"
    /\ call.status = "returned"
    /\ Len(call.ret.cols) = 1
    /\ DividesAll(2, call.inputs)

\* the width of the geometric inputs a mode concatenates
GeometricWidth(mode) == IF mode = "idr" THEN 3 * VecDim ELSE 2 * VecDim

\* C5: in each recognized mode and for any view-embedding frequency count,
\* the first layer's built input width equals the width forward concatenates
\* for that mode, and forward returns shape [B, d_out].
C5_RenderingFirstLayerWidth ==
    (/\ net.kind = "rendering"
     /\ net.mode \in RecognizedModes
     /\ net.d_in = GeometricWidth(net.mode)
     /\ call.op = "rendering_forward")
        => /\ call.status = "returned"
           /\ call.trace[1] = net.lin[1].in_dim
           /\ call.ret.shape = <<call.inputs.B, net.d_out>>

\* C6: a RenderingNetwork whose mode is none of idr, no_view_dir, no_normal
\* never returns from forward (no tensor, no None): the call raises.
C6_UnknownModeRaises ==
    (/\ net.kind = "rendering"
     /\ net.mode \notin RecognizedModes
     /\ call.op = "rendering_forward")
        => /\ call.status = "raised"
           /\ call.ret = NoRet

C6_Witness ==
    /\ net.kind = "rendering"
    /\ net.mode \notin RecognizedModes
    /\ ~net.squeeze_out
    /\ net.d_in = 3 * VecDim
    /\ call.op = "rendering_forward"
    /\ call.exc = "TypeError"

\* C7: a NeRF built without view-direction conditioning never returns from
\* forward: every call raises.
C7_NoViewdirsRaises ==
    (net.kind = "nerf" /\ ~net.use_viewdirs /\ call.op = "nerf_forward")
        => /\ call.status = "raised"
           /\ call.ret = NoRet

C7_Witness ==
    /\ net.kind = "nerf"
    /\ ~net.use_viewdirs
    /\ call.op = "nerf_forward"
    /\ call.exc = "AssertionError"

\* an explicit all-zero feature tensor of shape [B, feature_dim]
ExplicitZeroFeatures(B, feature_dim) ==
    [r \in 1 .. B |-> [c \in 1 .. feature_dim |-> 0]]

\* C8: forward and sdf without a feature argument give the output they give
\* with an explicit all-zero feature tensor of shape [B, feature_dim].
C8_ZeroFeatureDefault ==
    (net.kind = "sdf" /\ call.op \in {"forward", "sdf"} /\ ~call.given) =>
        LET zeros == ExplicitZeroFeatures(Len(call.inputs), net.feature_dim)
            r == IF call.op = "forward"
                 THEN SDFNetwork_forward(net, call.inputs, zeros, TRUE)
                 ELSE SDFNetwork_sdf(net, call.inputs, zeros, TRUE)
        IN  /\ r.status = call.status
            /\ r.exc = call.exc
            /\ r.ret = call.ret

C8_Witness ==
    /\ net.kind = "sdf"
    /\ net.feature_dim > 0
    /\ call.op = "forward"
    /\ ~call.given
    /\ call.status = "returned"

IsFreq(col) == col[1] \in {"sin", "cos"}

\* C9: with geometric_init, multires > 0 and d_in = 3, every weight column
\* of layer 0 and of every skip layer that forward feeds with a frequency
\* channel is zero; at a skip layer of index >= 1 the zero columns are
\* exactly the trailing embedded_dim-3 columns, which are exactly the
\* frequency channels, so hidden and raw-coordinate columns are not zeroed.
C9_FrequencyColumnsZeroed ==
    (/\ net.kind = "sdf"
     /\ net.geometric_init
     /\ net.multires > 0
     /\ net.d_in = 3
     /\ call.op \in {"forward", "sdf"})
        => \A l \in 1 .. Len(call.trace) :
              LET w == net.layers[l].weight
                  x == call.trace[l]
                  n == Len(w)
              IN  /\ Len(x) = n
                  /\ (l - 1 = 0 \/ l - 1 \in net.skip_in) =>
                        \A c \in 1 .. n : IsFreq(x[c]) => w[c] = "zero"
                  /\ (l - 1 >= 1 /\ l - 1 \in net.skip_in) =>
                        /\ {c \in 1 .. n : w[c] = "zero"}
                              = (n - (net.embedded_input_dim - 3) + 1) .. n
                        /\ \A c \in 1 .. n : w[c] = "zero" <=> IsFreq(x[c])

C9_Witness ==
    /\ net.kind = "sdf"
    /\ net.geometric_init
    /\ net.multires > 0
    /\ net.d_in = 3
    /\ 0 \in net.skip_in
    /\ \E l \in net.skip_in : l >= 1
    /\ call.op = "forward"
    /\ call.status = "returned"
    /\ Len(call.trace) = net.n_layers + 1

\* C10: for a NeRF with view-direction conditioning, for every depth D >= 1
\* and every skip set, every layer receives its built input width and
\* forward returns (alpha of shape [B,1], rgb of shape [B,3]).
C10_NeRFWidthsChain ==
    (net.kind = "nerf" /\ net.use_viewdirs /\ call.op = "nerf_forward")
        => /\ call.status = "returned"
           /\ call.ret.shape = <<<<call.inputs.B, 1>>, <<call.inputs.B, 3>>>>

====
